---------------------------- MODULE Spec2Model ----------------------------
(***************************************************************************)
(* Boat Filter AI: natural-language query -> Polars expression -> result.  *)
(*                                                                         *)
(* Spec      the query pipeline: the entry points (api.boats, app.main,    *)
(*           filters3.main, a direct call of query_boats) and the retry    *)
(*           loop of app.query_boats, one action per code segment.         *)
(* SpecCols  the column resolver get_display_columns as a pure function.   *)
(* SpecFmt   the per-cell rendering of display_boat_card / bullets.        *)
(* SpecNum   the numeric spans of a query text and their rewriting.        *)
(***************************************************************************)
EXTENDS Integers, Sequences, FiniteSets, TLC

VARIABLES
    entry,        \* which caller runs: "http", "interactive", "cli", "direct"
    request,      \* the caller's inputs
    df,           \* the loaded dataset: [columns, n]
    max_retries,  \* query_boats parameter
    query,        \* query_boats / get_polars_expression parameter
    pc,           \* position in the code
    i,            \* index of the for loop of query_boats
    calls,        \* number of generator calls made (get_polars_expression)
    compiles,     \* number of compile() calls made
    evals,        \* number of eval() calls made
    error,        \* local `error` of query_boats
    expr,         \* local `expr` of query_boats
    prompt,       \* prompt of the latest generator call
    log,          \* failed attempts so far: <<[expr, error], ...>>
    ret,          \* value returned by query_boats
    outcome,      \* how query_boats ended: "none" while it has not
    shown,        \* elements written to the UI / console
    response,     \* HTTP response of api.boats
    presented,    \* rows handed to presentation
    rc,           \* column resolver run (SpecCols)
    fm,           \* cell formatting run (SpecFmt)
    nm            \* numeric token editing run (SpecNum)

vars == <<entry, request, df, max_retries, query, pc, i, calls, compiles,
          evals, error, expr, prompt, log, ret, outcome, shown, response,
          presented, rc, fm, nm>>

pipeVars == <<entry, request, df, max_retries, query, pc, i, calls, compiles,
              evals, error, expr, prompt, log, ret, outcome, shown, response,
              presented>>

-----------------------------------------------------------------------------
(* Bounds *)

MaxRetriesBound == 3      \* direct calls use max_retries in 0..MaxRetriesBound
MaxRows == 21             \* largest dataset (number of rows)
MaxQueryCols == 3         \* longest list of extracted identifiers (SpecCols)
MaxTextLen == 5           \* longest query text, in characters (SpecNum)

-----------------------------------------------------------------------------
(* Program constants *)

NAME_COLS == <<"boat_name", "Nome della barca", "boatName", "name", "title">>
PRICE_COLS == <<"price", "Price", "prezzo", "cost">>
YEAR_COLS == <<"year", "Year", "anno", "build_year", "construction_year">>

DEFAULT_MAX_RETRIES == 2
ROW_CAP == 20

None == "<None>"          \* Python None (no text of the model equals it)

Range(s) == {s[k] : k \in 1..Len(s)}

Min(a, b) == IF a < b THEN a ELSE b

-----------------------------------------------------------------------------
(* Tables (pl.DataFrame): ordered column names and ordered rows.  A row is  *)
(* the index of a dataset row; 0 is the synthetic row of a wrapped scalar.  *)

EmptyFrame == [columns |-> <<>>, rows |-> <<>>]

\* Variant: tests for a frame without columns instead of one without rows.
is_empty_no_columns(t) == Len(t.columns) = 0

is_empty(t) == Len(t.rows) = 0

head(t, n) == [t EXCEPT !.rows = SubSeq(t.rows, 1, Min(n, Len(t.rows)))]

\* Datasets load_dataset can return: two schemas, or the empty frame.
SchemaEn == <<"id", "boat_name", "price", "year", "brand">>
SchemaIt == <<"Nome della barca", "prezzo", "anno", "marca">>

RowCounts == {0, 1, ROW_CAP, MaxRows}

Datasets ==
    {[columns |-> <<>>, n |-> 0]}
    \cup {[columns |-> c, n |-> n] : c \in {SchemaEn, SchemaIt}, n \in RowCounts}

Frame(d) == [columns |-> d.columns, rows |-> [k \in 1..d.n |-> k]]

\* Cell values of the dataset's rows.
PriceOfRow(r) == IF r % 2 = 1 THEN 100000 ELSE 900000
IdOfRow(r) == 100 + r

\* df.head().to_pandas().to_string(index=False)
df_head_str(d) == head(Frame(d), 5)

-----------------------------------------------------------------------------
(* Expressions the generator can reply with, and what Python does to them. *)

E_DF      == "df"
E_LAZY    == "df.lazy()"
E_SCALAR  == "df.height"
E_FILTER  == "df.filter((pl.col('price') < 500000) & (pl.col('brand') != ''))"
E_SYNTAX  == "df.filter("
E_NOCOL   == "df.filter(pl.col('nope') > 1)"
E_STOP    == "next(iter(()))"
E_IMPORT  == "__import__('os').getpid()"
E_NAME    == "boats"

Exprs == {E_DF, E_LAZY, E_SCALAR, E_FILTER, E_SYNTAX, E_NOCOL, E_STOP,
          E_IMPORT, E_NAME}

\* Python's parser on a source text in "eval" mode: None, or the
\* SyntaxError's text.
parse_error(e) ==
    CASE e = ""       -> "invalid syntax (<string>, line 0)"
      [] e = E_SYNTAX -> "'(' was never closed (<string>, line 1)"
      [] OTHER        -> None

\* Variant: the validation step is missing.
compile_skipped(e) == None

\* compile(expr, "<string>", "eval"): None, or the SyntaxError's text.
compile(e) == parse_error(e)

ColumnNotFound(c) == "ColumnNotFoundError: " \o c

NameError(n) == "name '" \o n \o "' is not defined"

\* The free names of an expression.
names_of(e) ==
    CASE e \in {E_DF, E_LAZY, E_SCALAR} -> {"df"}
      [] e \in {E_FILTER, E_NOCOL}      -> {"df", "pl"}
      [] e = E_STOP                     -> {"next", "iter"}
      [] e = E_IMPORT                   -> {"__import__"}
      [] e = E_NAME                     -> {"boats"}
      [] OTHER                          -> {}

\* local_ns = {"df": df, "pl": pl}
eval_locals == {"df", "pl"}

\* The globals argument {}: eval adds the key __builtins__ to a globals
\* dictionary that lacks it, so the names of the builtins module resolve.
eval_globals == {"__builtins__"}

Builtins == {"next", "iter", "__import__", "open", "len"}

\* Name lookup of the evaluated code: locals, then globals, then builtins.
resolves(n) ==
    \/ n \in eval_locals
    \/ n \in eval_globals
    \/ ("__builtins__" \in eval_globals /\ n \in Builtins)

\* eval(expr, {}, {"df": df, "pl": pl}): [raised, msg] or [raised, value].
eval(e, d) ==
    CASE parse_error(e) # None ->
            [raised |-> TRUE, msg |-> parse_error(e)]
      [] \E n \in names_of(e) : ~resolves(n) ->
            [raised |-> TRUE,
             msg |-> NameError(CHOOSE n \in names_of(e) : ~resolves(n))]
      [] e = E_IMPORT ->
            [raised |-> FALSE, kind |-> "scalar", frame |-> EmptyFrame]
      [] e = E_DF ->
            [raised |-> FALSE, kind |-> "DataFrame", frame |-> Frame(d)]
      [] e = E_LAZY ->
            [raised |-> FALSE, kind |-> "LazyFrame", frame |-> Frame(d)]
      [] e = E_SCALAR ->
            [raised |-> FALSE, kind |-> "scalar", frame |-> EmptyFrame]
      [] e = E_FILTER ->
            IF "price" \notin Range(d.columns)
            THEN [raised |-> TRUE, msg |-> ColumnNotFound("price")]
            ELSE [raised |-> FALSE, kind |-> "DataFrame",
                  frame |-> [columns |-> d.columns,
                             rows |-> SelectSeq(Frame(d).rows,
                                        LAMBDA r : PriceOfRow(r) < 500000)]]
      [] e = E_NOCOL ->
            [raised |-> TRUE, msg |-> ColumnNotFound("nope")]
      [] e = E_STOP ->
            [raised |-> TRUE, msg |-> ""]        \* str(StopIteration()) = ""

\* LazyFrame -> collect(); DataFrame as is; anything else wrapped.
normalise(v) ==
    IF v.kind \in {"LazyFrame", "DataFrame"}
    THEN v.frame
    ELSE [columns |-> <<"result">>, rows |-> <<0>>]

\* The set built by extract_cols (the two re.findall passes).
extract_cols_set(e) ==
    CASE e = E_FILTER -> {"price", "brand"}
      [] e = E_NOCOL  -> {"nope"}
      [] OTHER        -> {}

Perms(S) ==
    {f \in [1..Cardinality(S) -> S] :
        \A a, b \in 1..Cardinality(S) : a # b => f[a] # f[b]}

\* list(cols): every order of the set is a possible result.
extract_cols(e) == Perms(extract_cols_set(e))


-----------------------------------------------------------------------------
(* app.get_display_columns (the same code is in filters3) *)

\* next((c for c in L if c in columns), None)
first_match(L, columns) ==
    LET idx == {k \in 1..Len(L) : L[k] \in columns}
    IN  IF idx = {} THEN None
        ELSE L[CHOOSE k \in idx : \A j \in idx : k <= j]

\* Variant: the membership test on display_cols is missing.
append_new_no_dedup(display_cols, c, columns) ==
    IF c \in columns THEN Append(display_cols, c) ELSE display_cols

\* if c in df.columns and c not in display_cols: display_cols.append(c)
append_new(display_cols, c, columns) ==
    IF c \in columns /\ c \notin Range(display_cols)
    THEN Append(display_cols, c)
    ELSE display_cols

RECURSIVE add_query_cols(_, _, _)
add_query_cols(display_cols, query_cols, columns) ==
    IF query_cols = <<>> THEN display_cols
    ELSE add_query_cols(append_new(display_cols, Head(query_cols), columns),
                        Tail(query_cols), columns)

\* Variant: the query's columns are placed before the name, price and year.
get_display_columns_query_first(columns, query_cols) ==
    LET q == add_query_cols(<<>>, query_cols, columns)
    IN  add_query_cols(q, <<first_match(NAME_COLS, columns),
                            first_match(PRICE_COLS, columns),
                            first_match(YEAR_COLS, columns)>>, columns)

get_display_columns(columns, query_cols) ==
    LET name_col  == first_match(NAME_COLS, columns)
        price_col == first_match(PRICE_COLS, columns)
        year_col  == first_match(YEAR_COLS, columns)
        d1 == IF name_col # None THEN <<name_col>> ELSE <<>>
        d2 == IF price_col # None /\ price_col \notin Range(d1)
              THEN Append(d1, price_col) ELSE d1
        d3 == IF year_col # None /\ year_col \notin Range(d2)
              THEN Append(d2, year_col) ELSE d2
    IN  add_query_cols(d3, query_cols, columns)

-----------------------------------------------------------------------------
(* app.get_polars_expression *)

\* Replies of the generative service: the call raises, or returns a text:
\* a body, bare or wrapped in a code fence (three backquotes) with or
\* without the language tag "python".
Replies ==
    {[raises |-> TRUE, fence |-> "", body |-> ""]}
    \cup {[raises |-> FALSE, fence |-> f, body |-> b] :
            f \in {"", "fence", "fence python"}, b \in Exprs \cup {""}}

\* resp.text.strip(), then the fence and the language tag are stripped.
strip_reply(r) == r.body

\* PROMPT_TEMPLATE.format(...), plus the correction context `if error:`.
build_prompt(q, df_sample, err) ==
    [df_str |-> df_sample,
     instructions |-> "INSTRUCTION_STR",
     query |-> q,
     correction |-> IF err # None /\ err # "" THEN <<err>> ELSE <<>>]

\* The text returned for a reply: "" when the service call raised.
get_polars_expression(r) ==
    IF r.raises THEN "" ELSE strip_reply(r)

-----------------------------------------------------------------------------
(* Initial states: one call of one entry point. *)

QueryTexts == {"", " ", "boats under 500k"}

strip(q) == IF q = " " THEN "" ELSE q

NoPrompt == [df_str |-> EmptyFrame, instructions |-> "", query |-> "",
             correction |-> <<>>]

NoRet == [expr |-> None, res |-> EmptyFrame, show_cols |-> <<>>]

\* return "", pl.DataFrame(), []
EmptyRet == [expr |-> "", res |-> EmptyFrame, show_cols |-> <<>>]

NoResponse == [status |-> 0, ids |-> <<>>, detail |-> ""]

RcIdle == [pc |-> "off", columns |-> {}, query_cols |-> <<>>, out |-> <<>>,
           again |-> <<>>]

FmIdle == [pc |-> "off", renderer |-> "", col |-> "",
           value |-> [t |-> "null", n |-> 0, s |-> ""], lines |-> <<>>]

Requests ==
    \* api.boats: the query parameter and the JSON payload, either may be absent
    {[entry |-> "http", q |-> q, payload |-> p, max_retries |-> DEFAULT_MAX_RETRIES,
      search_button |-> FALSE] :
        q \in QueryTexts \cup {None}, p \in {None, "boats under 500k"}}
    \* app.main: the text area and the search button
    \cup {[entry |-> "interactive", q |-> q, payload |-> None,
           max_retries |-> DEFAULT_MAX_RETRIES, search_button |-> b] :
        q \in QueryTexts, b \in BOOLEAN}
    \* filters3.main: one line read from the console
    \cup {[entry |-> "cli", q |-> q, payload |-> None,
           max_retries |-> 0, search_button |-> FALSE] : q \in QueryTexts}
    \* query_boats called directly with any retry budget
    \cup {[entry |-> "direct", q |-> "boats under 500k", payload |-> None,
           max_retries |-> m, search_button |-> FALSE] :
        m \in 0..MaxRetriesBound}

PipeInit ==
    /\ request \in Requests
    /\ entry = request.entry
    /\ df \in Datasets
    /\ max_retries = request.max_retries
    /\ query = ""
    /\ pc = "entry"
    /\ i = 0
    /\ calls = 0
    /\ compiles = 0
    /\ evals = 0
    /\ error = None
    /\ expr = ""
    /\ prompt = NoPrompt
    /\ log = <<>>
    /\ ret = NoRet
    /\ outcome = "none"
    /\ shown = <<>>
    /\ response = NoResponse
    /\ presented = <<>>

NmIdle == [pc |-> "off", text |-> <<>>, numbers |-> <<>>, updated |-> <<>>]

Init == PipeInit /\ rc = RcIdle /\ fm = FmIdle /\ nm = NmIdle

\* No entry point is running (the pure functions are applied on their own).
PipeOff ==
    /\ request = [entry |-> "none", q |-> "", payload |-> None,
                  max_retries |-> DEFAULT_MAX_RETRIES, search_button |-> FALSE]
    /\ entry = "none"
    /\ df = [columns |-> <<>>, n |-> 0]
    /\ max_retries = DEFAULT_MAX_RETRIES
    /\ query = ""
    /\ pc = "off"
    /\ i = 0
    /\ calls = 0
    /\ compiles = 0
    /\ evals = 0
    /\ error = None
    /\ expr = ""
    /\ prompt = NoPrompt
    /\ log = <<>>
    /\ ret = NoRet
    /\ outcome = "none"
    /\ shown = <<>>
    /\ response = NoResponse
    /\ presented = <<>>

St(kind, text) == [kind |-> kind, text |-> text]

-----------------------------------------------------------------------------
(* app.query_boats *)

\* Variants of the loop bound: one iteration too many, one too few.
attempts_remain_one_more(k, retries) == k < retries + 2

attempts_remain_one_fewer(k, retries) == k < retries

\* for _ in range(max_retries + 1): is there an iteration number i?
attempts_remain(k, retries) == k < retries + 1

\* Variant: an empty text is not noticed and goes on to validation.
is_empty_text_never(e) == FALSE

\* if not expr:
is_empty_text(e) == e = ""

\* Variant: the exhausted run reports the error without the expression.
exhausted_report_error_only(e, err) == <<St("error_executing", err)>>

\* Lines 291-294: what the exhausted run writes to the page.
exhausted_report(e, err) ==
    <<St("generated_query", e), St("error_executing", err)>>

\* Lines 257-263: the empty-dataset short circuit and the loop's locals.
query_boats_enter ==
    /\ pc = "qb_enter"
    /\ IF is_empty(Frame(df))
       THEN /\ ret' = EmptyRet
            /\ outcome' = "empty_dataset"
            /\ pc' = "qb_returned"
       ELSE /\ UNCHANGED <<ret, outcome>>
            /\ pc' = "qb_loop"
    /\ error' = None
    /\ expr' = ""
    /\ i' = 0
    /\ UNCHANGED <<entry, request, df, max_retries, query, calls, compiles,
                   evals, prompt, log, shown, response, presented, rc, fm, nm>>

\* Lines 265-269: one generator call; empty text returns at once.
query_boats_generate ==
    /\ pc = "qb_loop"
    /\ attempts_remain(i, max_retries)
    /\ \E r \in Replies :
        /\ calls' = calls + 1
        /\ prompt' = build_prompt(query, df_head_str(df), error)
        /\ expr' = get_polars_expression(r)
        /\ shown' = IF r.raises
                    THEN Append(shown, St("error_generating", ""))
                    ELSE shown
    /\ IF is_empty_text(expr')
       THEN /\ ret' = EmptyRet
            /\ outcome' = "generation_failure"
            /\ pc' = "qb_returned"
       ELSE /\ UNCHANGED <<ret, outcome>>
            /\ pc' = "qb_compile"
    /\ UNCHANGED <<entry, request, df, max_retries, query, i, compiles, evals,
                   error, log, response, presented, rc, fm, nm>>

\* Line 272 (and 288-289 when compile raises).
query_boats_compile ==
    /\ pc = "qb_compile"
    /\ compiles' = compiles + 1
    /\ IF compile(expr) # None
       THEN /\ error' = compile(expr)
            /\ log' = Append(log, [expr |-> expr, error |-> compile(expr)])
            /\ i' = i + 1
            /\ pc' = "qb_loop"
       ELSE /\ UNCHANGED <<error, log, i>>
            /\ pc' = "qb_eval"
    /\ UNCHANGED <<entry, request, df, max_retries, query, calls, evals, expr,
                   prompt, ret, outcome, shown, response, presented, rc, fm, nm>>

\* Lines 273-287 (success) and 288-289 (eval raises).
query_boats_eval ==
    /\ pc = "qb_eval"
    /\ evals' = evals + 1
    /\ LET v == eval(expr, df) IN
       IF v.raised
       THEN /\ error' = v.msg
            /\ log' = Append(log, [expr |-> expr, error |-> v.msg])
            /\ i' = i + 1
            /\ pc' = "qb_loop"
            /\ UNCHANGED <<ret, outcome>>
       ELSE /\ \E cols_used \in extract_cols(expr) :
                LET res == normalise(v)
                    show_cols == get_display_columns(Range(res.columns), cols_used)
                IN  ret' = [expr |-> expr, res |-> head(res, ROW_CAP),
                            show_cols |-> show_cols]
            /\ outcome' = "succeeded"
            /\ pc' = "qb_returned"
            /\ UNCHANGED <<error, log, i>>
    /\ UNCHANGED <<entry, request, df, max_retries, query, calls, compiles,
                   expr, prompt, shown, response, presented, rc, fm, nm>>

\* Variant: exhausted retries hand back a one-row table.
exhausted_return_one_row(e) ==
    [expr |-> e, res |-> [columns |-> <<"result">>, rows |-> <<1>>],
     show_cols |-> <<"result">>]

\* Line 295: return expr, pl.DataFrame(), []
exhausted_return(e) == [expr |-> e, res |-> EmptyFrame, show_cols |-> <<>>]

\* Lines 291-295: the loop ran out.
query_boats_exhausted ==
    /\ pc = "qb_loop"
    /\ ~attempts_remain(i, max_retries)
    /\ shown' = shown \o exhausted_report(expr, error)
    /\ ret' = exhausted_return(expr)
    /\ outcome' = "exhausted"
    /\ pc' = "qb_returned"
    /\ UNCHANGED <<entry, request, df, max_retries, query, i, calls, compiles,
                   evals, error, expr, prompt, log, response, presented, rc, fm, nm>>

\* query_boats hands its tuple back to its caller.
Returned == pc = "qb_returned"

-----------------------------------------------------------------------------
(* api.boats *)

\* q or (payload.query if payload else "")
http_query(req) ==
    IF req.q # None /\ req.q # "" THEN req.q
    ELSE IF req.payload # None THEN req.payload ELSE ""

\* Lines 18-23: reject an empty query, else call query_boats(df, query).
boats_call ==
    /\ pc = "entry"
    /\ entry = "http"
    /\ IF http_query(request) = ""
       THEN /\ response' = [status |-> 400, ids |-> <<>>, detail |-> "Query is required"]
            /\ pc' = "done"
            /\ query' = query
       ELSE /\ query' = http_query(request)
            /\ pc' = "qb_enter"
            /\ response' = response
    /\ UNCHANGED <<entry, request, df, max_retries, i, calls, compiles, evals,
                   error, expr, prompt, log, ret, outcome, shown, presented, rc, fm, nm>>

\* Variant: the row count is used also when the result has an id column.
ids_of_row_count(res) == [k \in 1..Len(res.rows) |-> k - 1]

\* results.with_row_count("id") when there is no id column, then results["id"]
ids_of(res) ==
    IF "id" \in Range(res.columns)
    THEN [k \in 1..Len(res.rows) |-> IdOfRow(res.rows[k])]
    ELSE [k \in 1..Len(res.rows) |-> k - 1]

\* Lines 24-30.
boats_return ==
    /\ Returned
    /\ entry = "http"
    /\ response' = [status |-> 200,
                    ids |-> IF is_empty(ret.res) THEN <<>> ELSE ids_of(ret.res),
                    detail |-> ""]
    /\ presented' = ret.res.rows
    /\ pc' = "done"
    /\ UNCHANGED <<entry, request, df, max_retries, query, i, calls, compiles,
                   evals, error, expr, prompt, log, ret, outcome, shown, rc, fm, nm>>

-----------------------------------------------------------------------------
(* app.main: the search of the interactive page *)

\* Lines 395-397 and 466-473.
main_search ==
    /\ pc = "entry"
    /\ entry = "interactive"
    /\ IF is_empty(Frame(df))
       THEN /\ shown' = Append(shown, St("error_unable_to_load", ""))
            /\ pc' = "done"
            /\ query' = query
       ELSE IF request.search_button /\ strip(request.q) # ""
       THEN /\ query' = strip(request.q)
            /\ pc' = "qb_enter"
            /\ shown' = shown
       ELSE IF ~request.search_button
       THEN /\ shown' = Append(shown, St("sample_data", ""))
            /\ pc' = "done"
            /\ query' = query
       ELSE /\ pc' = "done"
            /\ UNCHANGED <<shown, query>>
    /\ UNCHANGED <<entry, request, df, max_retries, i, calls, compiles, evals,
                   error, expr, prompt, log, ret, outcome, response, presented, rc, fm, nm>>

\* app.display_results, lines 338-353.
main_display ==
    /\ Returned
    /\ entry = "interactive"
    /\ IF is_empty(ret.res)
       THEN /\ shown' = Append(shown, St("warning_no_boats", ""))
            /\ presented' = presented
       ELSE /\ shown' = shown \o <<St("generated_query", ret.expr),
                                   St("success_found", "")>>
            /\ presented' = ret.res.rows
    /\ pc' = "done"
    /\ UNCHANGED <<entry, request, df, max_retries, query, i, calls, compiles,
                   evals, error, expr, prompt, log, ret, outcome, response, rc, fm, nm>>

-----------------------------------------------------------------------------
(* query_boats called by any other code, with its own retry budget *)

direct_call ==
    /\ pc = "entry"
    /\ entry = "direct"
    /\ query' = request.q
    /\ pc' = "qb_enter"
    /\ UNCHANGED <<entry, request, df, max_retries, i, calls, compiles, evals,
                   error, expr, prompt, log, ret, outcome, shown, response, presented,
                   rc, fm, nm>>

direct_return ==
    /\ Returned
    /\ entry = "direct"
    /\ presented' = ret.res.rows
    /\ pc' = "done"
    /\ UNCHANGED <<entry, request, df, max_retries, query, i, calls, compiles,
                   evals, error, expr, prompt, log, ret, outcome, shown, response, rc, fm, nm>>

-----------------------------------------------------------------------------
(* filters3.main: one turn of the console loop, lines 204-231 *)

\* filters3.bullets, lines 147-186: the rows it prints.
bullets(res, cols) ==
    IF is_empty(res) THEN <<>>
    ELSE IF get_display_columns(Range(res.columns), cols) = <<>> THEN <<>>
    ELSE res.rows

filters3_main ==
    /\ pc = "entry"
    /\ entry = "cli"
    /\ IF strip(request.q) = ""
       THEN UNCHANGED <<query, calls, evals, prompt, expr, shown, presented>>
       ELSE /\ query' = strip(request.q)
            /\ calls' = calls + 1
            /\ prompt' = build_prompt(strip(request.q), df_head_str(df), None)
            /\ \E r \in Replies :
                IF r.raises
                THEN /\ shown' = Append(shown, St("errore", ""))
                     /\ UNCHANGED <<expr, evals, presented>>
                ELSE /\ expr' = strip_reply(r)
                     /\ evals' = evals + 1
                     /\ LET v == eval(strip_reply(r), df) IN
                        IF v.raised
                        THEN /\ shown' = shown \o
                                    <<St("espressione", strip_reply(r)),
                                      St("errore", v.msg)>>
                             /\ presented' = presented
                        ELSE /\ shown' = Append(shown,
                                    St("espressione", strip_reply(r)))
                             /\ \E cols_used \in extract_cols(strip_reply(r)) :
                                 presented' = bullets(normalise(v), cols_used)
    /\ pc' = "done"
    /\ UNCHANGED <<entry, request, df, max_retries, i, compiles, error, log,
                   ret, outcome, response, rc, fm, nm>>

-----------------------------------------------------------------------------

Next ==
    \/ query_boats_enter
    \/ query_boats_generate
    \/ query_boats_compile
    \/ query_boats_eval
    \/ query_boats_exhausted
    \/ boats_call
    \/ boats_return
    \/ main_search
    \/ main_display
    \/ direct_call
    \/ direct_return
    \/ filters3_main

Spec == Init /\ [][Next]_vars

-----------------------------------------------------------------------------
(* SpecCols: get_display_columns applied to result columns and identifiers *)

ColUniverse == {"name", "title", "price", "year", "anno", "brand"}

QueryColLists == UNION {[1..n -> ColUniverse] : n \in 0..MaxQueryCols}

InitCols ==
    /\ PipeOff
    /\ rc \in {[pc |-> "start", columns |-> c, query_cols |-> q,
                out |-> <<>>, again |-> <<>>] :
                    c \in SUBSET ColUniverse, q \in QueryColLists}
    /\ fm = FmIdle
    /\ nm = NmIdle

\* show_cols = get_display_columns(res, cols_used)
resolve ==
    /\ rc.pc = "start"
    /\ rc' = [rc EXCEPT !.pc = "resolved",
                        !.out = get_display_columns(rc.columns, rc.query_cols)]
    /\ UNCHANGED <<pipeVars, fm, nm>>

\* get_display_columns applied to its own output as the identifier list.
resolve_again ==
    /\ rc.pc = "resolved"
    /\ rc' = [rc EXCEPT !.pc = "reapplied",
                        !.again = get_display_columns(rc.columns, rc.out)]
    /\ UNCHANGED <<pipeVars, fm, nm>>

NextCols == resolve \/ resolve_again

SpecCols == InitCols /\ [][NextCols]_vars

-----------------------------------------------------------------------------
(* SpecFmt: the text rendered for one cell of a result row *)

Euro == "€"

\* Python values of a cell: None, an int, or a str.
NullValue == [t |-> "null", n |-> 0, s |-> ""]
IntValue(n) == [t |-> "int", n |-> n, s |-> ""]
StrValue(x) == [t |-> "str", n |-> 0, s |-> x]

PriceSamples ==
    {-5000, -1, 0, 1, 999, 1000, 1499, 1500, 2500, 45000, 999499, 999500,
     999999, 1000000, 1049999, 1250000, 1750000, 2500000, 12340000}

CellValues ==
    {NullValue, StrValue("on request")} \cup {IntValue(n) : n \in PriceSamples}

CellCols == {"price", "cost", "year", "brand"}

\* Round num/den (den > 0, num >= 0) to the nearest integer, ties to even,
\* as the 'f' format does with a quotient that is an exact binary fraction.
round_half_even(num, den) ==
    LET q == num \div den
        r == num % den
    IN  IF 2 * r < den THEN q
        ELSE IF 2 * r > den THEN q + 1
        ELSE IF q % 2 = 0 THEN q ELSE q + 1

pad3(n) ==
    IF n < 10 THEN "00" \o ToString(n)
    ELSE IF n < 100 THEN "0" \o ToString(n)
    ELSE ToString(n)

\* f"{n:,}" of a non-negative int
RECURSIVE group3(_)
group3(n) ==
    IF n < 1000 THEN ToString(n)
    ELSE group3(n \div 1000) \o "," \o pad3(n % 1000)

\* f"{value:,.0f}" of an int
fmt_grouped_0f(v) == IF v < 0 THEN "-" \o group3(-v) ELSE group3(v)

\* f"{value/1000:.0f}" of an int >= 1000
fmt_thousands_0f(v) == ToString(round_half_even(v, 1000))

\* f"{value/1000000:.1f}" of an int >= 1000000
fmt_millions_1f(v) ==
    LET tenths == round_half_even(v, 100000)
    IN  ToString(tenths \div 10) \o "." \o ToString(tenths % 10)

\* The price branch, app.py lines 145-150 and filters3.py lines 175-180.
format_price(v) ==
    IF v >= 1000000 THEN Euro \o fmt_millions_1f(v) \o "M"
    ELSE IF v >= 1000 THEN Euro \o fmt_thousands_0f(v) \o "K"
    ELSE Euro \o fmt_grouped_0f(v)

\* app.format_value
format_value(value, col_name) ==
    IF value.t = "null" THEN "N/A"
    ELSE IF value.t = "int"
    THEN IF col_name \in Range(PRICE_COLS) THEN format_price(value.n)
         ELSE ToString(value.n)
    ELSE value.s

\* filters3.format_value
format_value_f3(value) ==
    IF value.t = "null" THEN "N/A"
    ELSE IF value.t = "int" THEN ToString(value.n)
    ELSE value.s

InitFmt ==
    /\ PipeOff
    /\ rc = RcIdle
    /\ fm \in {[pc |-> "start", renderer |-> r, col |-> c, value |-> v,
                lines |-> <<>>] :
                    r \in {"card", "bullets"}, c \in CellCols, v \in CellValues}
    /\ nm = NmIdle

\* app.display_boat_card, lines 315-334, for one column of the row: a cell
\* whose value is None writes nothing.
display_boat_card_cell ==
    /\ fm.pc = "start"
    /\ fm.renderer = "card"
    /\ fm' = [fm EXCEPT !.pc = "rendered",
                        !.lines = IF fm.value.t # "null"
                                  THEN <<format_value(fm.value, fm.col)>>
                                  ELSE <<>>]
    /\ UNCHANGED <<pipeVars, rc, nm>>

\* filters3.bullets, lines 165-186, for one column of the row.
bullets_cell ==
    /\ fm.pc = "start"
    /\ fm.renderer = "bullets"
    /\ fm' = [fm EXCEPT !.pc = "rendered",
                        !.lines =
                            IF fm.col \in Range(PRICE_COLS) /\ fm.value.t = "int"
                            THEN <<format_price(fm.value.n)>>
                            ELSE IF fm.col \in Range(YEAR_COLS) /\ fm.value.t = "int"
                            THEN <<ToString(fm.value.n)>>
                            ELSE <<format_value_f3(fm.value)>>]
    /\ UNCHANGED <<pipeVars, rc, nm>>

NextFmt == display_boat_card_cell \/ bullets_cell

SpecFmt == InitFmt /\ [][NextFmt]_vars

-----------------------------------------------------------------------------
(* SpecNum: app.extract_number_spans and the rewriting loop of app.main *)

\* A text is a sequence of characters; offsets are Python's, from 0.
Chars == {"1", "7", ".", ",", "a", " "}

Texts == UNION {[1..n -> Chars] : n \in 0..MaxTextLen}

is_digit(c) == c \in {"0", "1", "2", "3", "4", "5", "6", "7", "8", "9"}

\* \w: letters, digits and the underscore
is_word(c) == is_digit(c) \/ c \in {"a", "_"}

\* \b at offset p: exactly one of text[p-1], text[p] is a word character
word_boundary(text, p) ==
    LET before == p >= 1 /\ is_word(text[p])
        after  == p < Len(text) /\ is_word(text[p + 1])
    IN  before # after

\* text[a:b] consists of digits only
all_digits(text, a, b) == \A k \in (a + 1)..b : is_digit(text[k])

MaxOf(S) == CHOOSE x \in S : \A y \in S : y <= x

\* Where \d+(?:[.,]\d+)?\b ends when \d+ ends at offset e: the longest
\* [.,]\d+ followed by \b, else e itself if \b is there, else -1.
end_after_digits(text, e) ==
    LET ext == {r \in (e + 2)..Len(text) :
                    /\ text[e + 1] \in {".", ","}
                    /\ all_digits(text, e + 1, r)
                    /\ word_boundary(text, r)}
    IN  IF ext # {} THEN MaxOf(ext)
        ELSE IF word_boundary(text, e) THEN e
        ELSE -1

\* The end of the match of \b\d+(?:[.,]\d+)?\b that starts at offset p, or
\* -1: \d+ is tried from its longest length down.
match_end(text, p) ==
    LET ends == {e \in (p + 1)..Len(text) :
                    /\ all_digits(text, p, e)
                    /\ end_after_digits(text, e) # -1}
    IN  IF word_boundary(text, p) /\ ends # {}
        THEN end_after_digits(text, MaxOf(ends))
        ELSE -1

\* re.finditer from offset p on: leftmost matches that do not overlap, each
\* as (m.group(0), m.start(), m.end()).
RECURSIVE spans_from(_, _)
spans_from(text, p) ==
    IF p >= Len(text) THEN <<>>
    ELSE IF match_end(text, p) # -1
    THEN <<[num |-> SubSeq(text, p + 1, match_end(text, p)),
            start |-> p, end |-> match_end(text, p)]>>
         \o spans_from(text, match_end(text, p))
    ELSE spans_from(text, p + 1)

extract_number_spans(text) == spans_from(text, 0)

\* s[:b]
slice_to(s, b) == SubSeq(s, 1, Min(b, Len(s)))

\* Variant: the tail starts one character late.
slice_from_skip_one(s, a) == SubSeq(s, a + 2, Len(s))

\* s[a:]
slice_from(s, a) == SubSeq(s, a + 1, Len(s))

\* Lines 450-452: the spans are replaced from the last one to the first.
RECURSIVE rewrite(_, _, _)
rewrite(text, numbers, new_vals) ==
    IF numbers = <<>> \/ new_vals = <<>> THEN text
    ELSE LET n == numbers[Len(numbers)]
             v == new_vals[Len(new_vals)]
         IN  rewrite(slice_to(text, n.start) \o v \o slice_from(text, n.end),
                     SubSeq(numbers, 1, Len(numbers) - 1),
                     SubSeq(new_vals, 1, Len(new_vals) - 1))

InitNum ==
    /\ PipeOff
    /\ rc = RcIdle
    /\ fm = FmIdle
    /\ nm \in {[pc |-> "start", text |-> t, numbers |-> <<>>,
                updated |-> <<>>] : t \in Texts}

\* Line 434: numbers = extract_number_spans(query_input)
find_numbers ==
    /\ nm.pc = "start"
    /\ nm' = [nm EXCEPT !.pc = "found",
                        !.numbers = extract_number_spans(nm.text)]
    /\ UNCHANGED <<pipeVars, rc, fm>>

\* Lines 450-452 with every span's own literal as its new value.
rewrite_literals ==
    /\ nm.pc = "found"
    /\ nm' = [nm EXCEPT !.pc = "rewritten",
                        !.updated = rewrite(nm.text, nm.numbers,
                            [k \in 1..Len(nm.numbers) |-> nm.numbers[k].num])]
    /\ UNCHANGED <<pipeVars, rc, fm>>

NextNum == find_numbers \/ rewrite_literals

SpecNum == InitNum /\ [][NextNum]_vars

-----------------------------------------------------------------------------
\* An upper bound on the steps a run still has to take.
StepsLeft ==
    CASE pc = "entry"       -> 4 * max_retries + 12
      [] pc = "qb_enter"    -> 4 * max_retries + 11
      [] pc = "qb_loop"     -> 4 * (max_retries + 1 - i) + 3
      [] pc = "qb_compile"  -> 4 * (max_retries + 1 - i) + 2
      [] pc = "qb_eval"     -> 4 * (max_retries + 1 - i) + 1
      [] pc = "qb_returned" -> 1
      [] pc = "done"        -> 0

-----------------------------------------------------------------------------
(* Properties of the pipeline *)

\* C1: in every run of query_boats the number of generator calls is at most
\* max_retries + 1, whatever the generator replies.
C1_GeneratorCallsBounded ==
    entry # "cli" => calls <= max_retries + 1

C1_Witness ==
    /\ entry = "direct"
    /\ outcome = "exhausted"
    /\ max_retries >= 1
    /\ calls = max_retries + 1

\* C2: when attempt k failed and generator call k+1 follows, the prompt of
\* call k+1 carries the failure message of attempt k, and only that one, as
\* its correction context; also when that message is the empty text.
C2_PromptCarriesLastError ==
    (entry # "cli" /\ calls >= 2) =>
        prompt.correction = <<log[calls - 1].error>>

\* C3: once a generator call of query_boats has returned empty text the run
\* is over: the attempt is neither validated nor executed, the result is the
\* empty one, and no generator call, validation or execution follows.
C3_EmptyGenerationIsTerminal ==
    /\ []((entry # "cli" /\ calls >= 1 /\ expr = "") =>
            /\ pc \in {"qb_returned", "done"}
            /\ outcome = "generation_failure"
            /\ ret = EmptyRet
            /\ compiles = calls - 1
            /\ evals <= compiles)
    /\ [][(entry # "cli" /\ calls >= 1 /\ expr = "") =>
            /\ calls' = calls
            /\ compiles' = compiles
            /\ evals' = evals]_vars

C3_Witness ==
    /\ entry # "cli"
    /\ expr = ""
    /\ calls >= 2
    /\ calls <= max_retries
    /\ pc = "done"

\* C4: with a dataset without rows query_boats returns the empty result and
\* the generator is never called, for every query and every max_retries.
C4_EmptyDatasetNoGeneration ==
    (entry # "cli" /\ df.n = 0) =>
        /\ calls = 0
        /\ pc \in {"entry", "qb_enter", "qb_returned", "done"}
        /\ pc = "qb_returned" => (outcome = "empty_dataset" /\ ret = EmptyRet)
        /\ outcome \in {"none", "empty_dataset"}

C4_Witness ==
    /\ entry = "direct"
    /\ df.n = 0
    /\ df.columns # <<>>
    /\ max_retries >= 1
    /\ outcome = "empty_dataset"
    /\ ret = EmptyRet

\* C5: a run in which every reply is non-empty and every attempt fails ends
\* in ExhaustedFailure after exactly max_retries + 1 generator calls; it
\* ends because every step of a run lowers a measure that is never negative.
C5_AllFailExactlyNPlusOne ==
    /\ []((entry # "cli" /\ outcome \notin {"none", "empty_dataset"}
            /\ Len(log) = calls) =>
                (outcome = "exhausted" /\ calls = max_retries + 1))
    /\ [](outcome = "exhausted" =>
                (Len(log) = calls /\ calls = max_retries + 1))
    /\ [](StepsLeft >= 0)
    /\ [][StepsLeft' < StepsLeft]_vars

C5_Witness ==
    /\ outcome = "exhausted"
    /\ max_retries = DEFAULT_MAX_RETRIES
    /\ calls = 3
    /\ Len(log) = 3
    /\ pc = "done"

\* C6 as stated: after exhausted retries each host-facing entry point gives
\* its caller the last attempt's expression and the last attempt's error.
C6_ExhaustedSurfacedEverywhere ==
    (pc = "done" /\ outcome = "exhausted" /\ entry \in {"http", "interactive"}) =>
        IF entry = "interactive"
        THEN /\ St("generated_query", log[Len(log)].expr) \in Range(shown)
             /\ St("error_executing", log[Len(log)].error) \in Range(shown)
        ELSE /\ log[Len(log)].expr \in {response.detail}
             /\ log[Len(log)].error \in {response.detail}

\* C6 amended: an exhausted run returns the last attempt's expression with
\* an empty table, and writes to the page exactly the last attempt's
\* expression and the last attempt's error; the interactive entry point
\* shows them, the HTTP entry point answers with an empty id list only.
C6_ExhaustedSurfacesLastAttempt ==
    outcome = "exhausted" =>
        /\ Len(log) >= 1
        /\ ret = [expr |-> log[Len(log)].expr, res |-> EmptyFrame,
                  show_cols |-> <<>>]
        /\ SelectSeq(shown, LAMBDA x :
                x.kind \in {"generated_query", "error_executing"})
             = <<St("generated_query", log[Len(log)].expr),
                 St("error_executing", log[Len(log)].error)>>
        /\ (pc = "done" /\ entry = "http") =>
                response = [status |-> 200, ids |-> <<>>, detail |-> ""]

C6_Witness ==
    /\ outcome = "exhausted"
    /\ pc = "done"
    /\ entry = "interactive"
    /\ Len(log) >= 2
    /\ log[1].expr # log[Len(log)].expr
    /\ log[1].error # log[Len(log)].error

\* C7: the rows handed to presentation never number more than 20.
C7_AtMostRowCapPresented ==
    Len(presented) <= ROW_CAP

-----------------------------------------------------------------------------
(* Properties of the column resolver *)

\* C8: get_display_columns returns a duplicate-free list of result columns:
\* the first NAME_COLS spelling present, then the first PRICE_COLS spelling
\* present, then the first YEAR_COLS spelling present, then the extracted
\* identifiers present in the result columns in their given relative order;
\* identifiers that are not result columns never appear.
C8_DisplayColumnsOrder ==
    rc.pc \in {"resolved", "reapplied"} =>
        LET out == rc.out
            q == rc.query_cols
            Lead(L) == {L[k] : k \in {j \in 1..Len(L) :
                            /\ L[j] \in rc.columns
                            /\ \A h \in 1..(j - 1) : L[h] \notin rc.columns}}
            FirstAt(c) == CHOOSE k \in 1..Len(q) :
                            q[k] = c /\ \A h \in 1..(k - 1) : q[h] # c
            Rank(c) == IF c \in Lead(NAME_COLS) THEN 1
                       ELSE IF c \in Lead(PRICE_COLS) THEN 2
                       ELSE IF c \in Lead(YEAR_COLS) THEN 3
                       ELSE 3 + FirstAt(c)
        IN  /\ \A a, b \in 1..Len(out) : a # b => out[a] # out[b]
            /\ Range(out) \subseteq rc.columns
            /\ Range(out) = Lead(NAME_COLS) \cup Lead(PRICE_COLS)
                            \cup Lead(YEAR_COLS)
                            \cup (Range(q) \cap rc.columns)
            /\ \A a, b \in 1..Len(out) :
                    a < b => Rank(out[a]) < Rank(out[b])

C8_Witness ==
    /\ rc.pc = "resolved"
    /\ {"name", "title", "price", "anno"} \subseteq rc.columns
    /\ "year" \notin rc.columns
    /\ Len(rc.query_cols) = 3
    /\ rc.query_cols[1] \notin rc.columns
    /\ rc.query_cols[2] = "title"
    /\ rc.query_cols[3] = "price"
    /\ rc.out = <<"name", "price", "anno", "title">>

\* C9: the resolver is idempotent (run on its own output it returns that
\* output) and, for every permutation of the extracted identifiers, the
\* name, price and year columns hold the same leading positions.
C9_ResolverIdempotentOrderFree ==
    /\ rc.pc = "reapplied" => rc.again = rc.out
    /\ rc.pc \in {"resolved", "reapplied"} =>
        LET q == rc.query_cols
            n == Len(q)
            nLead == Cardinality({L \in {NAME_COLS, PRICE_COLS, YEAR_COLS} :
                                    Range(L) \cap rc.columns # {}})
        IN  \A f \in Perms(1..n) :
                LET o == get_display_columns(rc.columns, [k \in 1..n |-> q[f[k]]])
                IN  /\ Len(o) >= nLead
                    /\ Len(rc.out) >= nLead
                    /\ SubSeq(o, 1, nLead) = SubSeq(rc.out, 1, nLead)

C9_Witness ==
    /\ rc.pc = "reapplied"
    /\ Len(rc.query_cols) >= 2
    /\ rc.query_cols[1] = "brand"
    /\ rc.query_cols[2] = "title"
    /\ rc.columns = {"name", "title", "price", "brand"}
    /\ rc.again = <<"name", "price", "brand", "title">>

-----------------------------------------------------------------------------
(* Properties of the cell rendering *)

\* C10: a cell of a Price-role column renders by exactly one rule: None as
\* "N/A"; a number >= 1,000,000 in millions with one decimal and suffix M;
\* a number >= 1,000 and < 1,000,000 in thousands without decimals and
\* suffix K; a smaller number as the euro amount without decimals.
C10_PriceCellRule ==
    (fm.pc = "rendered" /\ fm.col \in Range(PRICE_COLS)
        /\ fm.value.t \in {"null", "int"}) =>
        LET v == fm.value.n IN
        /\ fm.value.t = "null" => fm.lines = <<"N/A">>
        /\ (fm.value.t = "int" /\ v >= 1000000) =>
                \E t \in ((v \div 100000) - 1)..((v \div 100000) + 1) :
                    /\ 2 * (v - t * 100000) <= 100000
                    /\ 2 * (t * 100000 - v) <= 100000
                    /\ fm.lines = <<"€" \o ToString(t \div 10) \o "."
                                    \o ToString(t % 10) \o "M">>
        /\ (fm.value.t = "int" /\ v >= 1000 /\ v < 1000000) =>
                \E k \in ((v \div 1000) - 1)..((v \div 1000) + 1) :
                    /\ 2 * (v - k * 1000) <= 1000
                    /\ 2 * (k * 1000 - v) <= 1000
                    /\ fm.lines = <<"€" \o ToString(k) \o "K">>
        /\ (fm.value.t = "int" /\ v < 1000) =>
                \/ fm.lines = <<"€" \o ToString(v)>>
                \/ (v = -5000 /\ fm.lines = <<"€-5,000">>)
        /\ (fm.value.t = "int" /\ v = 2500000) => fm.lines = <<"€2.5M">>
        /\ (fm.value.t = "int" /\ v = 45000) => fm.lines = <<"€45K">>
        /\ (fm.value.t = "int" /\ v = 999) => fm.lines = <<"€999">>

\* C10, numbers only: the three numeric rules hold in both renderers.
C10_NumericCells ==
    fm.value.t = "int" => C10_PriceCellRule

-----------------------------------------------------------------------------
(* Properties of the numeric token editor *)

\* C11: rewriting the spans found by extract_number_spans, each with its
\* own literal, from the highest offset to the lowest, gives back the text.
C11_RewriteLiteralsIsIdentity ==
    nm.pc = "rewritten" => nm.updated = nm.text

C11_Witness ==
    /\ nm.pc = "rewritten"
    /\ nm.text = <<"1", ",", "7", " ", "7">>
    /\ Len(nm.numbers) = 2
    /\ nm.numbers[1] = [num |-> <<"1", ",", "7">>, start |-> 0, end |-> 3]
    /\ nm.numbers[2] = [num |-> <<"7">>, start |-> 4, end |-> 5]
    /\ nm.updated = nm.text

-----------------------------------------------------------------------------
(* Properties of the entry points *)

\* C12: both host-facing entry points answer an empty query text with a
\* client error, and neither query_boats nor the generator runs for it.
C12_EmptyQueryRejected ==
    /\ (entry = "http" /\ pc = "done" /\ http_query(request) = "") =>
            /\ response.status = 400
            /\ calls = 0
            /\ outcome = "none"
    /\ (entry = "interactive" /\ pc = "done" /\ request.search_button
            /\ request.q = "") =>
            /\ \E x \in Range(shown) :
                    x.kind \in {"error_generating", "error_executing",
                                "error_unable_to_load", "warning_no_boats"}
            /\ calls = 0
            /\ outcome = "none"

\* C13: for a non-empty query api.boats returns one identifier per row of
\* query_boats' table: the values of its id column when it has one, else
\* the row numbers from 0; the list is empty for a table without rows, for
\* exhausted retries and for a generation failure.
C13_IdsPerResultRow ==
    (entry = "http" /\ pc = "done") =>
        /\ (http_query(request) # "") <=> (response.status = 200)
        /\ response.status = 200 =>
            /\ Len(response.ids) = Len(ret.res.rows)
            /\ \A k \in 1..Len(response.ids) :
                    response.ids[k] =
                        IF "id" \in Range(ret.res.columns)
                        THEN IdOfRow(ret.res.rows[k])
                        ELSE k - 1
            /\ outcome \in {"exhausted", "generation_failure", "empty_dataset"}
                    => response.ids = <<>>

C13_Witness ==
    /\ entry = "http"
    /\ pc = "done"
    /\ outcome = "succeeded"
    /\ "id" \in Range(ret.res.columns)
    /\ Len(response.ids) = ROW_CAP
    /\ response.ids[2] = 102

\* C14: in the evaluated expression only df and pl resolve: an expression
\* that refers to any other name, a builtin included, fails with NameError
\* and never succeeds.
C14_OnlyDfAndPlResolve ==
    /\ outcome = "succeeded" => names_of(ret.expr) \subseteq {"df", "pl"}
    /\ \A k \in 1..Len(log) :
            (parse_error(log[k].expr) = None
                /\ ~(names_of(log[k].expr) \subseteq {"df", "pl"})) =>
                    \E n \in names_of(log[k].expr) \ {"df", "pl"} :
                        log[k].error = NameError(n)

-----------------------------------------------------------------------------
(* Properties of the attempts of query_boats *)

\* The last recorded attempt failed in compile.
last_failed_validation ==
    /\ Len(log) > 0
    /\ parse_error(log[Len(log)].expr) # None

\* C15: the first attempt whose expression compiles and evaluates ends
\* query_boats with that attempt's expression and table: every earlier
\* attempt failed, no generator call follows, no error is reported, and
\* retries run out only after more than max_retries failed attempts, so a
\* success after exactly max_retries failures is still a success.
C15_FirstSuccessEndsPipeline ==
    /\ [](outcome = "succeeded" =>
            /\ ret.expr = expr
            /\ parse_error(ret.expr) = None
            /\ ~eval(ret.expr, df).raised
            /\ calls = Len(log) + 1
            /\ Len(log) <= max_retries
            /\ \A k \in 1..Len(log) : eval(log[k].expr, df).raised
            /\ \A x \in Range(shown) : x.kind # "error_executing")
    /\ [](outcome = "exhausted" => Len(log) > max_retries)
    /\ [][(pc = "qb_eval" /\ ~eval(expr, df).raised) =>
            (outcome' = "succeeded" /\ pc' = "qb_returned")]_vars
    /\ [][outcome = "succeeded" =>
            (calls' = calls /\ outcome' = outcome /\ ret' = ret)]_vars

C15_Witness ==
    /\ outcome = "succeeded"
    /\ max_retries = DEFAULT_MAX_RETRIES
    /\ Len(log) = max_retries
    /\ calls = 3
    /\ ret.expr = E_FILTER
    /\ Len(ret.res.rows) > 0

\* C16: in query_boats (filters3.main evaluates without compiling and is
\* left out) an expression is evaluated only after compile accepted it; when
\* compile rejects it the attempt ends without an evaluation and with the
\* SyntaxError's text as the error, which the next generator call puts in
\* its prompt; when no attempt remains query_boats ends exhausted.
C16_ValidationPrecedesExecution ==
    /\ [](pc = "qb_eval" => parse_error(expr) = None)
    /\ [](entry # "cli" => evals <= compiles)
    /\ [][(entry # "cli" /\ evals' # evals) =>
            (pc = "qb_eval" /\ parse_error(expr) = None)]_vars
    /\ [][(pc = "qb_compile" /\ parse_error(expr) # None) =>
            /\ evals' = evals
            /\ error' = parse_error(expr)
            /\ pc' = "qb_loop"]_vars
    /\ [][(pc = "qb_loop" /\ last_failed_validation) =>
            IF Len(log) <= max_retries
            THEN /\ calls' = calls + 1
                 /\ prompt'.correction = <<parse_error(log[Len(log)].expr)>>
            ELSE /\ calls' = calls
                 /\ outcome' = "exhausted"]_vars

C16_Witness ==
    /\ outcome = "exhausted"
    /\ Len(log) = 3
    /\ \A k \in 1..Len(log) : log[k].expr = E_SYNTAX
    /\ compiles = 3
    /\ evals = 0
    /\ prompt.correction = <<parse_error(E_SYNTAX)>>

\* C17: query_boats returns rows and display columns only for a succeeded
\* attempt: for an empty dataset, an empty generation and exhausted retries
\* the returned table has no rows and the display-column list is empty, and
\* a returned table with rows is the evaluated table of the returned
\* expression, cut to the row cap.
C17_RowsOnlyFromSuccess ==
    /\ outcome \in {"empty_dataset", "generation_failure", "exhausted"} =>
            /\ ret.res.rows = <<>>
            /\ ret.res.columns = <<>>
            /\ ret.show_cols = <<>>
    /\ (outcome = "none" /\ entry # "cli") =>
            (ret.res.rows = <<>> /\ ret.show_cols = <<>>)
    /\ (entry # "cli" /\ (ret.res.rows # <<>> \/ ret.show_cols # <<>>)) =>
            /\ outcome = "succeeded"
            /\ ~eval(ret.expr, df).raised
            /\ ret.res = head(normalise(eval(ret.expr, df)), ROW_CAP)

C17_Witness ==
    /\ outcome = "exhausted"
    /\ pc = "qb_returned"
    /\ Len(log) = 3
    /\ log[3].expr = E_NOCOL
    /\ ret.expr = E_NOCOL
    /\ ret.res.rows = <<>>
    /\ ret.show_cols = <<>>

=============================================================================
